---- MODULE Spec2Model ----
(***************************************************************************)
(* Model of adk_multi_agents/main.py: the script builds a coordinator with *)
(* two sub-agents, creates a session, runs one user query through the      *)
(* runner, materialises the returned events into a list and reduces that   *)
(* list to the printed response string.                                    *)
(*                                                                         *)
(* Agent routing, session bookkeeping and model invocation live in the     *)
(* imported google.adk library.  What runner.run yields is therefore an    *)
(* input of this model: any bounded list of events, or an exception.       *)
(***************************************************************************)
EXTENDS Integers, Sequences, FiniteSets

\* Bounds of the model.
MaxEvents == 2
MaxParts == 3

\* Values a Part's text can take besides None: the empty string and a
\* non-empty one.
Texts == {"", "a"}

\* types.Part: text is Optional[str]; hasText = FALSE stands for text = None
\* (a part that carries something else than text).
Parts == [hasText : {TRUE}, text : Texts] \cup [hasText : {FALSE}, text : {""}]

SeqUpTo(S, n) == UNION {[1..k -> S] : k \in 0..n}

\* types.Content as far as the script reads it: Optional parts list.
\* hasParts = FALSE stands for parts = None.
Contents ==
    [hasParts : {TRUE}, parts : SeqUpTo(Parts, MaxParts)]
        \cup [hasParts : {FALSE}, parts : {<<>>}]

\* Event as far as the script reads it: Optional content.
\* hasContent = FALSE stands for content = None.
Events ==
    [hasContent : {TRUE}, content : Contents]
        \cup [hasContent : {FALSE}, content : {[hasParts |-> FALSE, parts |-> <<>>]}]

EventLists == SeqUpTo(Events, MaxEvents)

VARIABLES
    pc,        \* position of the script
    events,    \* main.py:78  events = list(runner.run(...))
    response,  \* main.py:85  response
    idx,       \* position of the for loop of main.py:87 (1-based)
    printed    \* what main.py:91 wrote to stdout; <<>> before, <<s>> after

vars == <<pc, events, response, idx, printed>>

\* "\n".join(xs) for a list of strings
RECURSIVE Join(_)
Join(xs) ==
    IF xs = <<>> THEN ""
    ELSE IF Len(xs) = 1 THEN xs[1]
    ELSE xs[1] \o "\n" \o Join(Tail(xs))

\* Python truthiness of p.text: None and "" are falsy
Truthy(p) == p.hasText /\ p.text # ""

\* [p.text for p in parts if p.text]
TextsOf(parts) ==
    LET kept == SelectSeq(parts, Truthy)
    IN  [k \in 1..Len(kept) |-> kept[k].text]

\* events[-1]
LastEvent(evs) == evs[Len(evs)]

\* main.py:86  events and events[-1].content and events[-1].content.parts
Guard(evs) ==
    /\ evs # <<>>
    /\ LastEvent(evs).hasContent
    /\ LastEvent(evs).content.hasParts
    /\ LastEvent(evs).content.parts # <<>>

\* Mutant of Chosen: the first event of the list is read instead of the last.
ChosenFirst(evs, i) == evs[1]

\* main.py:89  the event whose parts are joined: events[-1], whatever the
\* loop variable is
Chosen(evs, i) == LastEvent(evs)

\* main.py:89  "\n".join([p.text for p in events[-1].content.parts if p.text])
Joined(evs, i) == Join(TextsOf(Chosen(evs, i).content.parts))

Init ==
    /\ pc = "run"
    /\ events = <<>>
    /\ response = ""
    /\ idx = 0
    /\ printed = <<>>

\* main.py:78-82 and 85: runner.run yields some list of events, the script
\* materialises it and sets response = ""
Run ==
    /\ pc = "run"
    /\ \E evs \in EventLists : events' = evs
    /\ response' = ""
    /\ pc' = "guard"
    /\ UNCHANGED <<idx, printed>>

\* main.py:78-82: the library call raises; the script ends with the
\* exception and prints nothing
RunRaises ==
    /\ pc = "run"
    /\ pc' = "raised"
    /\ UNCHANGED <<events, response, idx, printed>>

\* main.py:86: the if
Test ==
    /\ pc = "guard"
    /\ IF Guard(events)
         THEN /\ pc' = "loop"
              /\ idx' = 1
         ELSE /\ pc' = "print"
              /\ idx' = idx
    /\ UNCHANGED <<events, response, printed>>

\* main.py:87-89: one iteration of the for loop
LoopBody ==
    /\ pc = "loop"
    /\ idx <= Len(events)
    /\ response' = Joined(events, idx)
    /\ idx' = idx + 1
    /\ pc' = IF idx + 1 <= Len(events) THEN "loop" ELSE "print"
    /\ UNCHANGED <<events, printed>>

\* main.py:91: print(response)
WriteResponse ==
    /\ pc = "print"
    /\ printed' = <<response>>
    /\ pc' = "done"
    /\ UNCHANGED <<events, response, idx>>

Next == Run \/ RunRaises \/ Test \/ LoopBody \/ WriteResponse

Spec == Init /\ [][Next]_vars

----------------------------------------------------------------------------
\* Response extraction as the specification words it, stated on one Turn.

\* The parts of a Turn (none when it has no content or no parts list).
PartsOfTurn(t) ==
    IF t.hasContent /\ t.content.hasParts THEN t.content.parts ELSE <<>>

IsTextPart(p) == p.hasText
IsNonEmptyTextPart(p) == p.hasText /\ p.text # ""

RECURSIVE JoinTexts(_)
JoinTexts(ps) ==
    IF ps = <<>> THEN ""
    ELSE IF Len(ps) = 1 THEN ps[1].text
    ELSE ps[1].text \o "\n" \o JoinTexts(Tail(ps))

\* Every text part of the Turn, joined with newlines.
ReplyAllTextParts(t) == JoinTexts(SelectSeq(PartsOfTurn(t), IsTextPart))

\* The non-empty text parts of the Turn, joined with newlines.
ReplyNonEmptyTextParts(t) ==
    JoinTexts(SelectSeq(PartsOfTurn(t), IsNonEmptyTextPart))

\* C5 as stated: the printed reply is the text parts of the last Turn of the
\* list joined with newline separators, and the empty string when the list is
\* empty or the last Turn has no text.  Fails: a text part whose text is the
\* empty string is dropped by the script, so no empty line appears for it.
C5_AsStated ==
    pc = "done" =>
        printed = <<IF events = <<>> THEN ""
                    ELSE ReplyAllTextParts(LastEvent(events))>>

\* C5 amended: the printed reply is the NON-EMPTY text parts of the last Turn
\* of the list joined with newline separators, and the empty string when the
\* list is empty or the last Turn has no non-empty text part; it is a function
\* of the last Turn alone.
C5_LastTurnNonEmptyTexts ==
    pc = "done" =>
        printed = <<IF events = <<>> THEN ""
                    ELSE ReplyNonEmptyTextParts(LastEvent(events))>>

\* C5 witness: a two-event list whose events differ, whose last Turn carries
\* two non-empty text parts around an empty one, has been reduced and printed.
C5_Witness ==
    /\ pc = "done"
    /\ Len(events) = 2
    /\ events[1] # events[2]
    /\ PartsOfTurn(events[1]) # <<>>
    /\ Len(SelectSeq(PartsOfTurn(events[2]), IsNonEmptyTextPart)) = 2
    /\ \E k \in 1..Len(PartsOfTurn(events[2])) :
          PartsOfTurn(events[2])[k] = [hasText |-> TRUE, text |-> ""]
    /\ printed = <<"a\na">>

TypeOK ==
    /\ pc \in {"run", "raised", "guard", "loop", "print", "done"}
    /\ events \in EventLists
    /\ idx \in 0..(MaxEvents + 1)
    /\ Len(printed) <= 1
====
